---- MODULE Spec2Model ----
\* Model of the particle pipeline of fysiks (src/src/main.rs, src/src/particle.rs):
\* the entity store filled by setup, and the four chained Update systems
\* update -> velocity_update -> loop_translation_update -> mass_update, each a
\* parallel iteration over the entities its query matches.
\*
\* f32 values are carried as integers counting 1/Unit (fixed point, rounded to
\* nearest); squared lengths are carried at 1/(Unit*Unit) so that no precision
\* is lost before the square root.  A division by zero gives NaN, which every
\* arithmetic operator propagates and every comparison rejects, as in IEEE 754
\* (infinities are not told apart from NaN).
EXTENDS Integers, FiniteSets, Sequences, TLC

VARIABLES
    entities,       \* entity ids alive in the World
    particle,       \* Particle component      : entity -> [charge, mass]
    transform,      \* Transform.translation   : entity -> Vec3
    velocity,       \* Velocity component      : entity -> Vec3
    mass,           \* Mass component          : entity -> f32
    pc,             \* the system of the chain that is running, or "idle" between ticks
    done,           \* entities the running system's parallel iteration has finished
    tick,           \* number of completed runs of the Update schedule
    delta_seconds,  \* Time::delta_seconds() of the current tick
    particles,      \* update's `particles`: the entities collected from `query`
    panicked,       \* an unwrap() in update has failed
    startTransform, \* transform when the running tick's update system began
    startVelocity,  \* velocity  when the running tick's update system began
    startMass,      \* mass      when the running tick's update system began
    built           \* constructor harness: the last constructor call and what it returned

vars == <<entities, particle, transform, velocity, mass, pc, done, tick,
          delta_seconds, particles, panicked, startTransform, startVelocity,
          startMass, built>>

-----------------------------------------------------------------------------
\* Bounds of the model

MaxParticles == 2
MaxTicks == 2
Unit == 20

-----------------------------------------------------------------------------
\* f32 arithmetic

NaN == -(2^30)

Abs(a) == IF a < 0 THEN -a ELSE a

\* a / b rounded to the nearest integer, halves away from zero (b # 0)
RDiv(a, b) ==
    LET s == IF (a < 0) = (b < 0) THEN 1 ELSE -1
    IN  s * ((2 * Abs(a) + Abs(b)) \div (2 * Abs(b)))

\* the f32 nearest to the decimal literal n/d
Lit(n, d) == RDiv(n * Unit, d)

fadd(a, b) == IF a = NaN \/ b = NaN THEN NaN ELSE a + b
fsub(a, b) == IF a = NaN \/ b = NaN THEN NaN ELSE a - b
fneg(a)    == IF a = NaN THEN NaN ELSE -a
fmul(a, b) == IF a = NaN \/ b = NaN THEN NaN ELSE RDiv(a * b, Unit)
fdiv(a, b) == IF a = NaN \/ b = NaN \/ b = 0 THEN NaN ELSE RDiv(a * Unit, b)
fgt(a, b)  == a # NaN /\ b # NaN /\ a > b
flt(a, b)  == a # NaN /\ b # NaN /\ a < b
fle(a, b)  == a # NaN /\ b # NaN /\ a <= b

RECURSIVE NewtonSqrt(_, _)
NewtonSqrt(n, x) ==
    LET y == (x + n \div x) \div 2
    IN  IF y >= x THEN x ELSE NewtonSqrt(n, y)

\* f32::sqrt of a squared length (carried at 1/(Unit*Unit)), rounded to nearest
sqrt(s) ==
    IF s = NaN \/ s < 0 THEN NaN
    ELSE IF s = 0 THEN 0
    ELSE LET r == NewtonSqrt(s, s)
         IN  IF s - r * r > r THEN r + 1 ELSE r

\* f32::EPSILON = 2^-23, at the resolution of a squared length
EPSILON == (Unit * Unit) \div (2^23)

-----------------------------------------------------------------------------
\* Vec3

Vec3_new(a, b, c) == [x |-> a, y |-> b, z |-> c]
Vec3_splat(a) == Vec3_new(a, a, a)
Vec3_ZERO == Vec3_splat(0)

vadd(u, v) == Vec3_new(fadd(u.x, v.x), fadd(u.y, v.y), fadd(u.z, v.z))
vsub(u, v) == Vec3_new(fsub(u.x, v.x), fsub(u.y, v.y), fsub(u.z, v.z))
vneg(u)    == Vec3_new(fneg(u.x), fneg(u.y), fneg(u.z))
vscale(u, k) == Vec3_new(fmul(u.x, k), fmul(u.y, k), fmul(u.z, k))
vdiv(u, k)   == Vec3_new(fdiv(u.x, k), fdiv(u.y, k), fdiv(u.z, k))

\* Vec3::length_squared, at 1/(Unit*Unit)
length_squared(u) ==
    IF u.x = NaN \/ u.y = NaN \/ u.z = NaN THEN NaN
    ELSE u.x * u.x + u.y * u.y + u.z * u.z

\* Vec3::length
length(u) == sqrt(length_squared(u))

\* Vec3 / (squared length + 1.0)
vdiv_sq1(u, s) ==
    IF s = NaN THEN Vec3_splat(NaN)
    ELSE LET d == s + Unit * Unit
             q(a) == IF a = NaN THEN NaN ELSE RDiv(a * Unit * Unit, d)
         IN  Vec3_new(q(u.x), q(u.y), q(u.z))

IsFinite(u) == u.x # NaN /\ u.y # NaN /\ u.z # NaN

-----------------------------------------------------------------------------
\* main.rs

SIZE == Vec3_splat(400 * Unit)

\* random_pos(-SIZE, SIZE) draws each coordinate from the half-open range
\* min..max.  The model draws from four of its values: two places next to
\* each other inside the corner (SIZE.x, -SIZE.y), and two inside the corner
\* (-SIZE.x, SIZE.y).
InitPositions ==
    { Vec3_new(SIZE.x - 1, -SIZE.y, 1),
      Vec3_new(SIZE.x - 3, -SIZE.y + 2, 0),
      Vec3_new(-SIZE.x, SIZE.y - 1, 0),
      Vec3_new(-SIZE.x + 2, SIZE.y - 3, 1) }

\* Time::delta_seconds(): 50 ms and 250 ms
DeltaSeconds == { Lit(5, 100), Lit(25, 100) }

-----------------------------------------------------------------------------
\* particle.rs: components and bundles

Particle_ELECTRON ==
    [charge |-> Lit(-1, 1), mass |-> Lit(51100, 100000)]
Particle_UP_QUARK ==
    [charge |-> fdiv(Lit(2, 1), Lit(3, 1)),
     mass   |-> fdiv(fadd(Lit(3, 1), Lit(18, 10)), Lit(2, 1))]
Particle_DOWN_QUARK ==
    [charge |-> fdiv(Lit(-1, 1), Lit(3, 1)),
     mass   |-> fdiv(fadd(Lit(58, 10), Lit(41, 10)), Lit(2, 1))]

Velocity_default == Vec3_ZERO

\* mutation of ParticleBundle_new: the Mass component is left at zero
ParticleBundle_new_default_mass(p, t, v) ==
    [particle |-> p, loop_translation |-> TRUE, mass |-> 0,
     velocity |-> v, transform |-> t]

ParticleBundle_new(p, t, v) ==
    [particle |-> p, loop_translation |-> TRUE, mass |-> p.mass,
     velocity |-> v, transform |-> t]

ParticleBundle_electron(t, v)   == ParticleBundle_new(Particle_ELECTRON, t, v)
ParticleBundle_up_quark(t, v)   == ParticleBundle_new(Particle_UP_QUARK, t, v)
ParticleBundle_down_quark(t, v) == ParticleBundle_new(Particle_DOWN_QUARK, t, v)

-----------------------------------------------------------------------------
\* particle.rs: the queries of the systems

With(c) == DOMAIN c

\* query_mut of update, ignoring every filter but With<Transform>
QueryMut_transform_only == entities \cap With(transform)

\* update: Query<(Entity, &Mass, &mut Velocity), (With<Particle>, With<Transform>)>
QueryMut ==
    entities \cap With(mass) \cap With(velocity) \cap With(particle) \cap With(transform)

\* update: Query<(&Particle, &Transform), With<Velocity>>
Query == entities \cap With(particle) \cap With(transform) \cap With(velocity)

\* velocity_update: Query<(&mut Transform, &Velocity)>
VelocityQuery == entities \cap With(transform) \cap With(velocity)

\* loop_translation_update: Query<&mut Transform>
LoopQuery == entities \cap With(transform)

\* mass_update: Query<(&mut Mass, &Particle, &Velocity)>
MassQuery == entities \cap With(mass) \cap With(particle) \cap With(velocity)

\* query.iter().collect::<Vec<_>>(): the matched entities in id order
RECURSIVE Collect(_, _)
Collect(q, n) ==
    IF n = 0 THEN <<>>
    ELSE IF n \in q THEN Append(Collect(q, n - 1), n) ELSE Collect(q, n - 1)

\* what the references held in `particles` read, given the component tables
Deref(ps, pt, tr) == [i \in 1..Len(ps) |-> <<pt[ps[i]], tr[ps[i]]>>]

-----------------------------------------------------------------------------
\* particle.rs: calculate_impulse

\* mutation of pair_force: the epsilon guard is missing
pair_force_unguarded(t1, p2, t2) ==
    LET diff == vsub(t1, t2)
        dist_squared == length_squared(diff)
        dir == vdiv(diff, sqrt(dist_squared))
    IN  vdiv_sq1(vscale(dir, p2.charge), dist_squared)

\* the closure mapped over the particles (lines 210-224)
pair_force(t1, p2, t2) ==
    LET diff == vsub(t1, t2)
        dist_squared == length_squared(diff)
        dir == vdiv(diff, sqrt(dist_squared))
    IN  IF fle(dist_squared, EPSILON) THEN Vec3_ZERO
        ELSE vdiv_sq1(vscale(dir, p2.charge), dist_squared)

RECURSIVE semi_force(_, _, _)
semi_force(ps, t1, n) ==
    IF n = 0 THEN Vec3_ZERO
    ELSE vadd(semi_force(ps, t1, n - 1), pair_force(t1, ps[n][1], ps[n][2]))

calculate_impulse(ps, properties, m, translation, delta_time) ==
    vscale(semi_force(ps, translation, Len(ps)),
           fmul(fdiv(properties.charge, m), delta_time))

-----------------------------------------------------------------------------
\* particle.rs: loop_translation_update and mass_update, per entity

\* mutation of loop_translation: the y axis is not wrapped
loop_translation_x_only(p) ==
    LET dimensions == SIZE
    IN  [p EXCEPT !.x = IF fgt(p.x, dimensions.x) THEN fneg(dimensions.x)
                        ELSE IF flt(p.x, fneg(dimensions.x)) THEN dimensions.x
                        ELSE p.x]

\* mutation of loop_translation: the overshoot is carried to the other side
loop_translation_modulo(p) ==
    LET dimensions == SIZE
        wx == fmul(Lit(2, 1), dimensions.x)
        wy == fmul(Lit(2, 1), dimensions.y)
    IN  [p EXCEPT !.x = IF fgt(p.x, dimensions.x) THEN fsub(p.x, wx)
                        ELSE IF flt(p.x, fneg(dimensions.x)) THEN fadd(p.x, wx)
                        ELSE p.x,
                  !.y = IF fgt(p.y, dimensions.y) THEN fsub(p.y, wy)
                        ELSE IF flt(p.y, fneg(dimensions.y)) THEN fadd(p.y, wy)
                        ELSE p.y]

\* the body of the loop of loop_translation_update (lines 140-151)
loop_translation(p) ==
    LET dimensions == SIZE
    IN  [p EXCEPT !.x = IF fgt(p.x, dimensions.x) THEN fneg(dimensions.x)
                        ELSE IF flt(p.x, fneg(dimensions.x)) THEN dimensions.x
                        ELSE p.x,
                  !.y = IF fgt(p.y, dimensions.y) THEN fneg(dimensions.y)
                        ELSE IF flt(p.y, fneg(dimensions.y)) THEN dimensions.y
                        ELSE p.y]

-----------------------------------------------------------------------------
\* The World after the Startup schedule

\* the bundles of the three spawn_batch calls of setup (main.rs), in spawn order
Spawned(ne, nu, nd, pos) ==
    [i \in 1..(ne + nu + nd) |->
        IF i <= ne THEN ParticleBundle_electron(pos[i], Velocity_default)
        ELSE IF i <= ne + nu THEN ParticleBundle_up_quark(pos[i], Velocity_default)
        ELSE ParticleBundle_down_quark(pos[i], Velocity_default)]

\* NUM_ELECTRONS, NUM_UP_QUARKS and NUM_DOWN_QUARKS range over the populations
\* of at most MaxParticles; the camera is spawned last and has a Transform only.
Init ==
    \E ne, nu, nd \in 0..MaxParticles :
        LET n == ne + nu + nd IN
        /\ n \in 1..MaxParticles
        /\ \E pos \in [1..n -> InitPositions] :
            LET b == Spawned(ne, nu, nd, pos) IN
            /\ entities = 1..(n + 1)
            /\ particle = [i \in 1..n |-> b[i].particle]
            /\ transform = [i \in 1..(n + 1) |->
                               IF i <= n THEN b[i].transform ELSE Vec3_ZERO]
            /\ velocity = [i \in 1..n |-> b[i].velocity]
            /\ mass = [i \in 1..n |-> b[i].mass]
            /\ startTransform = [i \in 1..(n + 1) |->
                               IF i <= n THEN b[i].transform ELSE Vec3_ZERO]
            /\ startVelocity = [i \in 1..n |-> b[i].velocity]
            /\ startMass = [i \in 1..n |-> b[i].mass]
        /\ pc = "idle"
        /\ done = {}
        /\ tick = 0
        /\ delta_seconds = 0
        /\ particles = <<>>
        /\ panicked = FALSE
        /\ built = {}

-----------------------------------------------------------------------------
\* The Update schedule

Systems == <<"update", "velocity_update", "loop_translation_update", "mass_update">>

SystemQuery(s) ==
    CASE s = "update" -> QueryMut
      [] s = "velocity_update" -> VelocityQuery
      [] s = "loop_translation_update" -> LoopQuery
      [] s = "mass_update" -> MassQuery

\* mutation of SystemFinished: the systems are not chained
SystemFinished_unchained == TRUE

\* the running system's par_iter_mut / iter_mut has visited every matched entity
SystemFinished == done = SystemQuery(pc)

\* The schedule starts a tick: Time advances and update collects `particles`
\* (line 237) before it iterates.
BeginTick ==
    /\ pc = "idle"
    /\ ~panicked
    /\ tick < MaxTicks
    /\ \E dt \in DeltaSeconds : delta_seconds' = dt
    /\ particles' = Collect(Query, Cardinality(entities))
    /\ startTransform' = transform
    /\ startVelocity' = velocity
    /\ startMass' = mass
    /\ pc' = "update"
    /\ done' = {}
    /\ UNCHANGED <<entities, particle, transform, velocity, mass, tick, panicked, built>>

\* mutation of update_step: the position is advanced in the same pass
update_step_fused(e) ==
    /\ pc = "update"
    /\ ~panicked
    /\ e \in QueryMut \ done
    /\ IF e \notin Query
       THEN /\ panicked' = TRUE
            /\ UNCHANGED <<velocity, transform, done>>
       ELSE LET impulse == calculate_impulse(Deref(particles, particle, transform),
                               particle[e], mass[e], transform[e], delta_seconds)
            IN  /\ velocity' = [velocity EXCEPT ![e] = vadd(@, impulse)]
                /\ transform' = [transform EXCEPT ![e] = vadd(@, vadd(velocity[e], impulse))]
                /\ done' = done \cup {e}
                /\ UNCHANGED panicked
    /\ UNCHANGED <<entities, particle, mass, pc, tick, delta_seconds,
                   particles, startTransform, startVelocity, startMass, built>>

\* update: the closure run for one entity of query_mut (lines 241-251)
update_step(e) ==
    /\ pc = "update"
    /\ ~panicked
    /\ e \in QueryMut \ done
    /\ IF e \notin Query
       THEN /\ panicked' = TRUE
            /\ UNCHANGED <<velocity, done>>
       ELSE LET impulse == calculate_impulse(Deref(particles, particle, transform),
                               particle[e], mass[e], transform[e], delta_seconds)
            IN  /\ velocity' = [velocity EXCEPT ![e] = vadd(@, impulse)]
                /\ done' = done \cup {e}
                /\ UNCHANGED panicked
    /\ UNCHANGED <<entities, particle, transform, mass, pc, tick, delta_seconds,
                   particles, startTransform, startVelocity, startMass, built>>

\* mutation of velocity_update_step: only x and y are advanced
velocity_update_step_planar(e) ==
    /\ pc = "velocity_update"
    /\ ~panicked
    /\ e \in VelocityQuery \ done
    /\ transform' = [transform EXCEPT ![e] =
                        [@ EXCEPT !.x = fadd(@, velocity[e].x),
                                  !.y = fadd(@, velocity[e].y)]]
    /\ done' = done \cup {e}
    /\ UNCHANGED <<entities, particle, velocity, mass, pc, tick, delta_seconds, particles,
                   panicked, startTransform, startVelocity, startMass, built>>

\* velocity_update: the closure run for one entity (line 160)
velocity_update_step(e) ==
    /\ pc = "velocity_update"
    /\ ~panicked
    /\ e \in VelocityQuery \ done
    /\ transform' = [transform EXCEPT ![e] = vadd(@, velocity[e])]
    /\ done' = done \cup {e}
    /\ UNCHANGED <<entities, particle, velocity, mass, pc, tick, delta_seconds, particles,
                   panicked, startTransform, startVelocity, startMass, built>>

\* loop_translation_update: one iteration of the loop (lines 139-152)
loop_translation_update_step(e) ==
    /\ pc = "loop_translation_update"
    /\ ~panicked
    /\ e \in LoopQuery \ done
    /\ transform' = [transform EXCEPT ![e] = loop_translation(@)]
    /\ done' = done \cup {e}
    /\ UNCHANGED <<entities, particle, velocity, mass, pc, tick, delta_seconds, particles,
                   panicked, startTransform, startVelocity, startMass, built>>

\* mutation of mass_update_step: the sum is stored in the Particle's rest mass too
mass_update_step_rest(e) ==
    /\ pc = "mass_update"
    /\ ~panicked
    /\ e \in MassQuery \ done
    /\ mass' = [mass EXCEPT ![e] = fadd(particle[e].mass, length(velocity[e]))]
    /\ particle' = [particle EXCEPT ![e].mass = fadd(@, length(velocity[e]))]
    /\ done' = done \cup {e}
    /\ UNCHANGED <<entities, transform, velocity, pc, tick, delta_seconds, particles,
                   panicked, startTransform, startVelocity, startMass, built>>

\* mutation of mass_update_step: the speed is added to the previous Mass
mass_update_step_accumulate(e) ==
    /\ pc = "mass_update"
    /\ ~panicked
    /\ e \in MassQuery \ done
    /\ mass' = [mass EXCEPT ![e] = fadd(@, length(velocity[e]))]
    /\ done' = done \cup {e}
    /\ UNCHANGED <<entities, particle, transform, velocity, pc, tick, delta_seconds,
                   particles, panicked, startTransform, startVelocity, startMass, built>>

\* mass_update: the closure run for one entity (line 171)
mass_update_step(e) ==
    /\ pc = "mass_update"
    /\ ~panicked
    /\ e \in MassQuery \ done
    /\ mass' = [mass EXCEPT ![e] = fadd(particle[e].mass, length(velocity[e]))]
    /\ done' = done \cup {e}
    /\ UNCHANGED <<entities, particle, transform, velocity, pc, tick, delta_seconds,
                   particles, panicked, startTransform, startVelocity, startMass, built>>

\* .chain(): the next system starts when the running one has finished; after
\* mass_update the schedule has run once
Chain ==
    /\ pc # "idle"
    /\ ~panicked
    /\ SystemFinished
    /\ pc' = CASE pc = "update" -> "velocity_update"
               [] pc = "velocity_update" -> "loop_translation_update"
               [] pc = "loop_translation_update" -> "mass_update"
               [] pc = "mass_update" -> "idle"
    /\ tick' = IF pc = "mass_update" THEN tick + 1 ELSE tick
    /\ done' = {}
    /\ UNCHANGED <<entities, particle, transform, velocity, mass, delta_seconds, particles,
                   panicked, startTransform, startVelocity, startMass, built>>

Next ==
    \/ BeginTick
    \/ \E e \in entities : update_step(e)
    \/ \E e \in entities : velocity_update_step(e)
    \/ \E e \in entities : loop_translation_update_step(e)
    \/ \E e \in entities : mass_update_step(e)
    \/ Chain

Spec == Init /\ [][Next]_vars

-----------------------------------------------------------------------------
\* The constructors of ParticleBundle, called on their own

NewParticles ==
    [charge : {Lit(-1, 1), Lit(1, 1)},
     mass : {Lit(-1, 1), 0, Lit(1, 2), Lit(5, 1)}]

NewVelocities ==
    {Velocity_default, Vec3_new(Lit(1, 1), 0, 0), Vec3_new(0, Lit(-1, 1), Lit(1, 2))}

InitNew ==
    /\ entities = {}
    /\ particle = <<>>
    /\ transform = <<>>
    /\ velocity = <<>>
    /\ mass = <<>>
    /\ startTransform = <<>>
    /\ startVelocity = <<>>
    /\ startMass = <<>>
    /\ pc = "idle"
    /\ done = {}
    /\ tick = 0
    /\ delta_seconds = 0
    /\ particles = <<>>
    /\ panicked = FALSE
    /\ built = {}

World == <<entities, particle, transform, velocity, mass, pc, done, tick, delta_seconds,
           particles, panicked, startTransform, startVelocity, startMass>>

\* a call records the constructor, the Particle it was given and the bundles it returned
CallNew ==
    \E p \in NewParticles, t \in InitPositions, v \in NewVelocities :
        /\ built' = {[via |-> "new", particle |-> p,
                      yields |-> {ParticleBundle_new(p, t, v)}]}
        /\ UNCHANGED World

CallElectron ==
    \E t \in InitPositions, v \in NewVelocities :
        /\ built' = {[via |-> "electron", particle |-> Particle_ELECTRON,
                      yields |-> {ParticleBundle_electron(t, v)}]}
        /\ UNCHANGED World

CallUpQuark ==
    \E t \in InitPositions, v \in NewVelocities :
        /\ built' = {[via |-> "up_quark", particle |-> Particle_UP_QUARK,
                      yields |-> {ParticleBundle_up_quark(t, v)}]}
        /\ UNCHANGED World

CallDownQuark ==
    \E t \in InitPositions, v \in NewVelocities :
        /\ built' = {[via |-> "down_quark", particle |-> Particle_DOWN_QUARK,
                      yields |-> {ParticleBundle_down_quark(t, v)}]}
        /\ UNCHANGED World

NextNew == CallNew \/ CallElectron \/ CallUpQuark \/ CallDownQuark

SpecNew == InitNew /\ [][NextNew]_vars

-----------------------------------------------------------------------------
\* Claims

ParticleIds == entities \cap With(particle)

\* the impulse update computes for e from the values at the start of the tick
StartImpulse(e) ==
    calculate_impulse(Deref(particles, particle, startTransform),
                      particle[e], startMass[e], startTransform[e], delta_seconds)

ChainOrder ==
    { <<"idle", "update">>, <<"update", "velocity_update">>,
      <<"velocity_update", "loop_translation_update">>,
      <<"loop_translation_update", "mass_update">>, <<"mass_update", "idle">> }

\* C1: the systems run in the order update, velocity_update,
\* loop_translation_update, mass_update; a system is left only when it has
\* visited every entity its query matches, and velocity, translation and mass
\* are written only while the system that owns them is running.
C1_StageOrder ==
    [][ /\ pc' # pc =>
            /\ <<pc, pc'>> \in ChainOrder
            /\ pc # "idle" => done = SystemQuery(pc)
            /\ done' = {}
        /\ velocity' # velocity => pc = "update" /\ pc' = pc
        /\ transform' # transform =>
            pc \in {"velocity_update", "loop_translation_update"} /\ pc' = pc
        /\ mass' # mass => pc = "mass_update" /\ pc' = pc ]_vars

C1_Witness ==
    /\ pc = "mass_update"
    /\ tick = 1
    /\ done = MassQuery
    /\ Cardinality(done) >= 2
    /\ \E e \in done : velocity[e] # startVelocity[e]

\* C2: while update runs, in every order of its workers, translations and
\* masses are those of the start of the tick, an entity not yet visited has
\* its start velocity, and a visited one has its start velocity plus the
\* impulse computed from the start translations.
C2_UpdateIsolation ==
    pc = "update" =>
        /\ transform = startTransform
        /\ mass = startMass
        /\ \A e \in QueryMut :
              velocity[e] = IF e \in done
                            THEN vadd(startVelocity[e], StartImpulse(e))
                            ELSE startVelocity[e]

C2_Witness ==
    /\ pc = "update"
    /\ done = QueryMut
    /\ \E e1, e2 \in done :
          /\ e1 # e2
          /\ velocity[e1] # startVelocity[e1]
          /\ velocity[e2] # startVelocity[e2]
          /\ startVelocity[e1] # Vec3_ZERO

\* C3: between ticks, the initial state included, x and y of every particle
\* lie within [-SIZE, SIZE].
C3_InBounds ==
    pc = "idle" =>
        \A e \in ParticleIds :
            /\ fle(fneg(SIZE.x), transform[e].x) /\ fle(transform[e].x, SIZE.x)
            /\ fle(fneg(SIZE.y), transform[e].y) /\ fle(transform[e].y, SIZE.y)

C3_Witness ==
    /\ pc = "idle"
    /\ tick >= 1
    /\ \E e \in ParticleIds :
          /\ transform[e].x = SIZE.x
          /\ transform[e].y = -SIZE.y
          /\ velocity[e].x < 0
          /\ velocity[e].y > 0

\* C4: the mass is never negative; between ticks it is the rest mass plus the
\* length of the velocity, which after a tick is the velocity update wrote in
\* that tick; initially it is the rest mass.
C4_EffectiveMass ==
    /\ \A e \in MassQuery : fle(0, mass[e])
    /\ pc = "idle" =>
          \A e \in MassQuery :
              /\ mass[e] = fadd(particle[e].mass, length(velocity[e]))
              /\ tick = 0 => mass[e] = particle[e].mass
              /\ tick > 0 => velocity[e] = vadd(startVelocity[e], StartImpulse(e))

C4_Witness ==
    /\ pc = "idle"
    /\ tick = 2
    /\ \E e \in MassQuery :
          /\ length(startVelocity[e]) # 0
          /\ length(velocity[e]) # length(startVelocity[e])
          /\ mass[e] > particle[e].mass

\* C5: no step creates or destroys an entity, adds or removes a component, or
\* changes a Particle (charge and rest mass).
C5_Population ==
    [][ /\ entities' = entities
        /\ particle' = particle
        /\ DOMAIN transform' = DOMAIN transform
        /\ DOMAIN velocity' = DOMAIN velocity
        /\ DOMAIN mass' = DOMAIN mass ]_vars

C5_Witness ==
    /\ pc = "idle"
    /\ tick = 2
    /\ Cardinality(ParticleIds) >= 2
    /\ \E e \in ParticleIds : mass[e] # particle[e].mass

\* C6 as claimed: a constructor given a rest mass <= 0 returns no bundle.
C6_Original ==
    \A c \in built : c.particle.mass <= 0 => c.yields = {}

\* C6: every constructor call returns exactly one bundle, of the Particle it
\* was given and with Mass equal to that Particle's rest mass, whatever its
\* sign; electron, up_quark and down_quark give a positive rest mass.
C6_NewInfallible ==
    \A c \in built :
        /\ Cardinality(c.yields) = 1
        /\ \A b \in c.yields :
              /\ b.particle = c.particle
              /\ b.mass = c.particle.mass
              /\ c.via # "new" => b.mass > 0

C6_Witness ==
    \E c \in built :
        /\ c.via = "new"
        /\ c.particle.mass < 0
        /\ \E b \in c.yields : b.mass < 0

Wrapped(c, r, S) ==
    /\ fgt(c, S) => r = fneg(S)
    /\ flt(c, fneg(S)) => r = S
    /\ (fle(fneg(S), c) /\ fle(c, S)) => r = c

\* C8: an iteration of loop_translation_update maps x and y each to -S when
\* above S, to S when below -S, and leaves it otherwise; a second application
\* changes nothing.
C8_Wrap ==
    [][ pc = "loop_translation_update" =>
          \A e \in done' \ done :
              /\ Wrapped(transform[e].x, transform'[e].x, SIZE.x)
              /\ Wrapped(transform[e].y, transform'[e].y, SIZE.y)
              /\ loop_translation(transform'[e]) = transform'[e] ]_vars

C8_Witness ==
    /\ pc = "loop_translation_update"
    /\ \E e1, e2 \in done :
          /\ transform[e1].x = -SIZE.x /\ velocity[e1].x > 0
          /\ transform[e1].y = SIZE.y /\ velocity[e1].y < 0
          /\ e2 # e1
          /\ e2 \in ParticleIds
          /\ transform[e2] = vadd(startTransform[e2], velocity[e2])
          /\ velocity[e2] # Vec3_ZERO

Coincident(t1, t2) == fle(length_squared(vsub(t1, t2)), EPSILON)

\* C9: a pair at squared distance <= EPSILON contributes the zero vector, no
\* velocity is ever NaN, and an entity all of whose particles are coincident
\* with it leaves update with the velocity it entered with.
C9_EpsilonGuard ==
    /\ \A e \in With(velocity) : IsFinite(velocity[e])
    /\ \A e1, e2 \in Query :
          Coincident(transform[e1], transform[e2]) =>
              pair_force(transform[e1], particle[e2], transform[e2]) = Vec3_ZERO
    /\ pc = "update" =>
          \A e \in QueryMut \cap done :
              (\A i \in 1..Len(particles) :
                    Coincident(startTransform[e], startTransform[particles[i]]))
                  => velocity[e] = startVelocity[e]

C9_Witness ==
    /\ pc = "update"
    /\ Len(particles) >= 2
    /\ \E e \in QueryMut \cap done :
          \A i \in 1..Len(particles) :
              Coincident(startTransform[e], startTransform[particles[i]])

\* C10: update never panics: every entity of query_mut is found in query, also
\* with the camera in the World, and the Mass it divides by is positive.
C10_NoPanic ==
    /\ ~panicked
    /\ \A e \in QueryMut : e \in Query /\ fgt(mass[e], 0)

C10_Witness ==
    /\ pc = "update"
    /\ tick >= 1
    /\ done = QueryMut
    /\ done # {}
    /\ entities \ With(particle) # {}
    /\ ~panicked

====
